---- MODULE Spec2Model ----
(***************************************************************************)
(* DevtoolServer and register() of node-network-devtools                   *)
(* (packages/network-debugger/src/core/index.ts) and RequestDetail         *)
(* (packages/network-debugger/src/common.ts).                              *)
(*                                                                         *)
(* The specifications share the variables below:                           *)
(*   Spec            the CDP projection: front-end connections, send(),    *)
(*                   requestWillBeSent(), responseReceived().              *)
(*   SpecClock       the same towards one front-end, any clock reading.    *)
(*   SpecInterleave  several records, any clock reading.                   *)
(*   SpecOpen        the browser-launch sequence open() and close().       *)
(*   SpecPoll        the poll loop when /json never answers.               *)
(*   SpecFields      postData and type computed from one record.           *)
(*   SpecIds         the ids of the records constructed.                   *)
(*   SpecRegister    register() called repeatedly.                         *)
(*   SpecInbound     inbound 'message' and 'error' events, on().           *)
(*                                                                         *)
(* Node runs one event-loop callback (a "task") at a time and drains the   *)
(* promise job queue after it.  jobs is that queue: a task may start only  *)
(* when jobs is empty, and RunJob runs the job at its head.                *)
(***************************************************************************)
EXTENDS Integers, Sequences, FiniteSets, TLC

\* ---------------------------------------------------------------- bounds
MaxRecords == 2
MaxSockets == 2
MaxClock == 1
MaxClockRecords == 1
MaxTabs == 2
MaxInFlight == 2
MaxOpenPolls == 3
MaxPolls == 61
MaxRandom == 4
MaxCreated == 3
MaxRegisters == 4
MaxListeners == 2
MaxInbound == 3

Records == 1..MaxRecords
SocketIds == 1..MaxSockets
\* Values Date.now() may return, in milliseconds.  The wall clock is not
\* monotonic: every reading is an independent choice.
ClockReadings == 0..MaxClock
StatusCodes == {200, 500}

VARIABLES
    \* ---- DevtoolServer fields (projection side)
    socketSettled,   \* this.socket (the promise) has been resolved
    socketCell,      \* l[0] of the one-element array the promise holds; 0 = none
    reactions,       \* continuations waiting on this.socket while it is pending
    jobs,            \* promise job queue of the event loop
    timestamp,       \* this.timestamp, in thousandths of a second
    startTime,       \* this.startTime
    \* ---- the ws sockets
    sockState,       \* socket id -> "none" | "open" | "closed"
    handed,          \* every socket.send() call, in call order
    \* ---- history
    calls,           \* projection calls made so far, in order
    sendCount,       \* number of send() calls so far
    lastConn,        \* id of the most recently connected socket; 0 = none
    \* ---- open() / close()
    devMode,         \* IS_DEV_MODE: NETWORK_DEBUG_MODE === 'true'
    platform,        \* process.platform
    pc,              \* position of open()
    serverOpen,      \* the ws Server accepts connections
    browser,         \* this.browser: 0 = null, else the child
    child,           \* the launched browser child: "none" | "running" | "killed"
    closeCalled,     \* close() has been called
    intervalOn,      \* the setInterval timer of the poll loop is armed
    pollsStarted,    \* polls started by the timer
    inFlight,        \* polls whose getRemoteJSON() has not settled
    jsonSettled,     \* the promise around the poll loop has been resolved
    json,            \* the value it was resolved with
    debuggerWs,      \* tab sockets made by manageDebuggerWs, in creation order
    cdpSent,         \* commands sent on tab sockets, in order
    unhandled,       \* errors that escaped: unhandled rejections, uncaught exceptions
    probeResult,     \* history: outcome of the first /json probe
    pollAnswers,     \* history: polls that were answered
    \* ---- one RequestDetail record and the frame fields projected from it
    requestData,         \* request.requestData
    requestContentType,  \* getHeader('content-type') of request.requestHeaders
    responseContentType, \* getHeader('content-type') of request.responseHeaders
    postData,            \* params.request.postData of Network.requestWillBeSent
    frameType,           \* params.type of Network.responseReceived
    \* ---- RequestDetail construction
    ids,             \* id of every RequestDetail constructed, in order
    \* ---- register()
    agentRequest,    \* agent -> the wrappers around the original request
    globalFetch,     \* the wrappers around the original fetch
    mainProcesses,   \* the MainProcess objects constructed, in order
    \* ---- inbound side of the front-end socket
    listeners,       \* this.listeners
    delivered,       \* history: every listener call, in call order
    received         \* history: every 'message' and 'error' event, in order

projVars == <<socketSettled, socketCell, reactions, jobs, timestamp, startTime,
              sockState, handed, calls, sendCount, lastConn>>
openVars == <<devMode, platform, pc, serverOpen, browser, child, closeCalled, intervalOn,
              pollsStarted, inFlight, jsonSettled, json, debuggerWs, cdpSent,
              unhandled, probeResult, pollAnswers>>
fieldVars == <<requestData, requestContentType, responseContentType,
               postData, frameType>>
idVars == <<ids>>
hookVars == <<agentRequest, globalFetch, mainProcesses>>
inboundVars == <<listeners, delivered, received>>
otherVars == <<fieldVars, idVars, hookVars, inboundVars>>
vars == <<projVars, openVars, otherVars>>

\* ------------------------------------------------------------ projection

\* request.id: the id field of record object r (common.ts, RequestDetail).
RequestId(r) == r

\* updateTimestamp(): this.timestamp = (Date.now() - this.startTime) / 1000.
\* The value is kept as the numerator of that fraction (denominator 1000).
UpdateTimestamp(now) == now - startTime

\* statusText of the response block.
StatusText(status) == IF status = 200 THEN "OK" ELSE ""

\* The message requestWillBeSent() builds.
RequestWillBeSentFrame(r, ts) ==
    [method |-> "Network.requestWillBeSent", requestId |-> RequestId(r),
     timestamp |-> ts, response |-> <<>>]

\* Mutant of ResponseFrames: the transfer is finished only for a 200.
ResponseFramesOkOnly(r, status, t1, t2, t3) ==
    LET head == << [method |-> "Network.responseReceived", requestId |-> RequestId(r),
                    timestamp |-> t1, response |-> <<status, StatusText(status)>>],
                   [method |-> "Network.dataReceived", requestId |-> RequestId(r),
                    timestamp |-> t2, response |-> <<>>] >>
    IN  IF status = 200
        THEN Append(head, [method |-> "Network.loadingFinished",
                           requestId |-> RequestId(r), timestamp |-> t3,
                           response |-> <<>>])
        ELSE head

\* The three messages responseReceived() builds, in the order it sends them.
ResponseFrames(r, status, t1, t2, t3) ==
    << [method |-> "Network.responseReceived", requestId |-> RequestId(r),
        timestamp |-> t1, response |-> <<status, StatusText(status)>>],
       [method |-> "Network.dataReceived", requestId |-> RequestId(r),
        timestamp |-> t2, response |-> <<>>],
       [method |-> "Network.loadingFinished", requestId |-> RequestId(r),
        timestamp |-> t3, response |-> <<>>] >>

\* Mutant of AwaitSocket: the newest continuation runs first.
AwaitSocketNewestFirst(q, k) == <<k>> \o q

\* `await this.socket` / `this.socket.then(...)`: the continuation k is put
\* behind the continuations already registered.
AwaitSocket(q, k) == Append(q, k)

RECURSIVE AwaitAll(_, _)
AwaitAll(q, ks) ==
    IF ks = <<>> THEN q ELSE AwaitAll(AwaitSocket(q, Head(ks)), Tail(ks))

\* The continuation of send(message) after its await.  rec, seq, connAtSend
\* and closedAtSend are history: the record object the frame was built
\* from, the number of the send() call, and the most recently connected
\* socket (and whether it had closed) when send() was called.
SendJob(frame, r, n) ==
    [kind |-> "send", frame |-> frame, rec |-> r, seq |-> sendCount + n,
     connAtSend |-> lastConn,
     closedAtSend |-> (lastConn # 0 /\ sockState[lastConn] = "closed")]

\* The callback of this.socket.then((l) => { l[0] = socket }).
SetCellJob(s) == [kind |-> "setCell", sock |-> s]

SendJobs(frames, r) == [i \in 1..Len(frames) |-> SendJob(frames[i], r, i)]

\* Mutant of Send: a frame sent while no front-end has connected is
\* discarded instead of waiting for one.
SendOrDiscard(frames, r) ==
    /\ IF socketSettled
       THEN /\ jobs' = AwaitAll(jobs, SendJobs(frames, r))
            /\ UNCHANGED reactions
       ELSE UNCHANGED <<jobs, reactions>>
    /\ sendCount' = sendCount + Len(frames)

\* send(message), called for each of frames in turn within one task.
Send(frames, r) ==
    /\ IF socketSettled
       THEN /\ jobs' = AwaitAll(jobs, SendJobs(frames, r))
            /\ UNCHANGED reactions
       ELSE /\ reactions' = AwaitAll(reactions, SendJobs(frames, r))
            /\ UNCHANGED jobs
    /\ sendCount' = sendCount + Len(frames)

Called(op, r) == \E i \in 1..Len(calls) : calls[i] = [op |-> op, rec |-> r]

\* The number of records projected so far.
Projected == Cardinality({calls[i].rec : i \in 1..Len(calls)})

\* requestWillBeSent(request); clock is the set of values Date.now() may
\* return during the call.  Record objects are numbered in the order of
\* their requestWillBeSent call.
RequestWillBeSent(r, clock) ==
    /\ jobs = <<>>
    /\ r = Projected + 1
    /\ \E now \in clock :
         /\ timestamp' = UpdateTimestamp(now)
         /\ Send(<<RequestWillBeSentFrame(r, UpdateTimestamp(now))>>, r)
    /\ calls' = Append(calls, [op |-> "requestWillBeSent", rec |-> r])
    /\ UNCHANGED <<socketSettled, socketCell, startTime, sockState, handed, lastConn>>
    /\ UNCHANGED openVars
    /\ UNCHANGED otherVars

\* responseReceived(request): three updateTimestamp() calls, each followed
\* by the send() of the frame built with the value it stored.  statuses
\* is the set of values request.responseStatusCode may hold.
\* A record is projected once, its request side first (the record
\* lifecycle), so the call follows requestWillBeSent(request).
ResponseReceived(r, statuses, clock) ==
    /\ jobs = <<>>
    /\ Called("requestWillBeSent", r)
    /\ ~Called("responseReceived", r)
    /\ \E status \in statuses, n1, n2, n3 \in clock :
         /\ timestamp' = UpdateTimestamp(n3)
         /\ Send(ResponseFrames(r, status, UpdateTimestamp(n1),
                                UpdateTimestamp(n2), UpdateTimestamp(n3)), r)
    /\ calls' = Append(calls, [op |-> "responseReceived", rec |-> r])
    /\ UNCHANGED <<socketSettled, socketCell, startTime, sockState, handed, lastConn>>
    /\ UNCHANGED openVars
    /\ UNCHANGED otherVars

\* Mutant of ReplaceSocket: the first socket is kept.
KeepFirstSocket(l, socket) == l

\* l[0] = socket: the cell takes the newly connected socket.
ReplaceSocket(l, socket) == socket

\* server.on('connection'): register the cell update on this.socket, then
\* resolve([socket]), which settles the promise only the first time.
Connect(s) ==
    /\ jobs = <<>>
    /\ serverOpen
    /\ s = lastConn + 1
    /\ s \in SocketIds
    /\ sockState' = [sockState EXCEPT ![s] = "open"]
    /\ lastConn' = s
    /\ IF socketSettled
       THEN /\ jobs' = AwaitSocket(jobs, SetCellJob(s))
            /\ UNCHANGED <<socketSettled, socketCell, reactions>>
       ELSE /\ socketSettled' = TRUE
            /\ socketCell' = s
            /\ jobs' = AwaitSocket(reactions, SetCellJob(s))
            /\ reactions' = <<>>
    /\ UNCHANGED <<timestamp, startTime, handed, calls, sendCount>>
    /\ UNCHANGED openVars
    /\ UNCHANGED otherVars

\* Mutant of SettledAfterClose: a close makes this.socket pending again,
\* so that later frames wait for the next front-end.
PendingAfterClose(settled) == FALSE

\* socket.on('close'): the handler logs and leaves this.socket as it is.
SettledAfterClose(settled) == settled

SocketClose(s) ==
    /\ jobs = <<>>
    /\ sockState[s] = "open"
    /\ sockState' = [sockState EXCEPT ![s] = "closed"]
    /\ socketSettled' = SettledAfterClose(socketSettled)
    /\ UNCHANGED <<socketCell, reactions, jobs, timestamp, startTime, handed,
                   calls, sendCount, lastConn>>
    /\ UNCHANGED openVars
    /\ UNCHANGED otherVars

\* One promise job.  A resumed send() reads the cell and calls socket.send;
\* ws writes the frame when the socket is open and discards it otherwise.
RunJob ==
    /\ jobs # <<>>
    /\ jobs' = Tail(jobs)
    /\ LET j == Head(jobs) IN
         IF j.kind = "send"
         THEN /\ handed' = Append(handed,
                     [sock |-> socketCell,
                      delivered |-> (sockState[socketCell] = "open"),
                      frame |-> j.frame, rec |-> j.rec, seq |-> j.seq,
                      connAtSend |-> j.connAtSend,
                      closedAtSend |-> j.closedAtSend])
              /\ UNCHANGED socketCell
         ELSE /\ socketCell' = ReplaceSocket(socketCell, j.sock)
              /\ UNCHANGED handed
    /\ UNCHANGED <<socketSettled, reactions, timestamp, startTime, sockState,
                   calls, sendCount, lastConn>>
    /\ UNCHANGED openVars
    /\ UNCHANGED otherVars

InitProj ==
    /\ socketSettled = FALSE
    /\ socketCell = 0
    /\ reactions = <<>>
    /\ jobs = <<>>
    /\ timestamp = 0
    /\ startTime \in ClockReadings
    /\ sockState = [s \in SocketIds |-> "none"]
    /\ handed = <<>>
    /\ calls = <<>>
    /\ sendCount = 0
    /\ lastConn = 0

\* -------------------------------------------------------- open / close

Platforms == {"darwin", "linux"}

\* url of open(): devtools://devtools/bundled/inspector.html?ws=localhost:<port>
InspectorUrl == "devtools://devtools/bundled/inspector.html?ws=localhost:5270"

\* setInterval(..., 500)
PollIntervalMs == 500

\* A DebuggerJSON entry of the /json answer.  The tab listed at position i
\* has the debugger socket i.
TabAt(i, u) == [url |-> u, webSocketDebuggerUrl |-> i]

\* The answers /json may give: up to MaxTabs tabs, each showing the
\* inspector or another page.
JsonAnswers ==
    UNION { { [i \in 1..n |-> TabAt(i, f[i])] :
                f \in [1..n -> {InspectorUrl, "about:blank"}] } : n \in 0..MaxTabs }

\* dbHistoryJson.findIndex((e) => e.url === url): the JS index, -1 if none.
FindIndex(tabs, u) ==
    IF \E i \in 1..Len(tabs) : tabs[i].url = u
    THEN (CHOOSE i \in 1..Len(tabs) :
              /\ tabs[i].url = u
              /\ \A k \in 1..(i - 1) : tabs[k].url # u) - 1
    ELSE -1

\* dbHistoryJson[idx].webSocketDebuggerUrl
StaleTabSocket(tabs, idx) == tabs[idx + 1].webSocketDebuggerUrl

\* const { webSocketDebuggerUrl } = json[0]
FirstTabSocket(tabs) == tabs[1].webSocketDebuggerUrl

\* manageDebuggerWs(socketUrl, command): a WebSocket to the tab, with an
\* 'open' handler and no 'error' handler.
ManageDebuggerWs(ws, socketUrl, command) ==
    Append(ws, [url |-> socketUrl, command |-> command, state |-> "connecting"])

\* The process is running: nothing has escaped as an uncaught exception or
\* an unhandled rejection (either ends a Node >= 15 process).
Alive == unhandled = {}

LauncherCalled == pc \notin {"idle", "probe"}

\* server.on('listening'): open() builds the url and awaits the first probe.
Listening ==
    /\ Alive
    /\ pc = "idle"
    /\ serverOpen
    /\ pc' = "probe"
    /\ UNCHANGED <<devMode, platform, serverOpen, browser, child, closeCalled, intervalOn,
                   pollsStarted, inFlight, jsonSettled, json, debuggerWs, cdpSent,
                   unhandled, probeResult, pollAnswers>>
    /\ UNCHANGED projVars
    /\ UNCHANGED otherVars

\* The probe answers: a tab showing the inspector gets a socket that will
\* send Page.close; then the finally block calls the launcher.
ProbeAnswer(tabs) ==
    /\ Alive
    /\ pc = "probe"
    /\ LET idx == FindIndex(tabs, InspectorUrl) IN
         debuggerWs' = IF idx # -1
                       THEN ManageDebuggerWs(debuggerWs, StaleTabSocket(tabs, idx), "close")
                       ELSE debuggerWs
    /\ probeResult' = [outcome |-> "answered", tabs |-> tabs]
    /\ pc' = "launching"
    /\ UNCHANGED <<devMode, platform, serverOpen, browser, child, closeCalled, intervalOn,
                   pollsStarted, inFlight, jsonSettled, json, cdpSent,
                   unhandled, pollAnswers>>
    /\ UNCHANGED projVars
    /\ UNCHANGED otherVars

\* The probe fails (fetch rejects, or the body is no JSON): caught and
\* logged; then the finally block calls the launcher.
ProbeFail ==
    /\ Alive
    /\ pc = "probe"
    /\ probeResult' = [outcome |-> "failed", tabs |-> <<>>]
    /\ pc' = "launching"
    /\ UNCHANGED <<devMode, platform, serverOpen, browser, child, closeCalled, intervalOn,
                   pollsStarted, inFlight, jsonSettled, json, debuggerWs, cdpSent,
                   unhandled, pollAnswers>>
    /\ UNCHANGED projVars
    /\ UNCHANGED otherVars

\* The launcher returns the child.  On darwin open() assigns this.browser
\* and returns; elsewhere it arms the poll timer and awaits the poll loop.
LaunchDone ==
    /\ Alive
    /\ pc = "launching"
    /\ child' = "running"
    /\ IF platform # "darwin"
       THEN /\ intervalOn' = TRUE
            /\ pc' = "polling"
            /\ UNCHANGED browser
       ELSE /\ browser' = 1
            /\ pc' = "done"
            /\ UNCHANGED intervalOn
    /\ UNCHANGED <<devMode, platform, serverOpen, closeCalled, pollsStarted, inFlight,
                   jsonSettled, json, debuggerWs, cdpSent, unhandled,
                   probeResult, pollAnswers>>
    /\ UNCHANGED projVars
    /\ UNCHANGED otherVars

\* The launcher throws inside the finally block: open() rejects, and the
\* 'listening' handler has dropped its promise.
LaunchFail ==
    /\ Alive
    /\ pc = "launching"
    /\ pc' = "failed"
    /\ unhandled' = unhandled \cup {"rejection: launcher"}
    /\ UNCHANGED <<devMode, platform, serverOpen, browser, child, closeCalled, intervalOn,
                   pollsStarted, inFlight, jsonSettled, json, debuggerWs, cdpSent,
                   probeResult, pollAnswers>>
    /\ UNCHANGED projVars
    /\ UNCHANGED otherVars

\* The interval timer fires and starts a poll; limit bounds the polls of
\* the model.
TimerFire(limit) ==
    /\ Alive
    /\ intervalOn
    /\ pollsStarted < limit
    /\ inFlight < MaxInFlight
    /\ pollsStarted' = pollsStarted + 1
    /\ inFlight' = inFlight + 1
    /\ UNCHANGED <<devMode, platform, pc, serverOpen, browser, child, closeCalled, intervalOn,
                   jsonSettled, json, debuggerWs, cdpSent, unhandled,
                   probeResult, pollAnswers>>
    /\ UNCHANGED projVars
    /\ UNCHANGED otherVars

\* Mutant of ResolvesPromise: every answer resumes open().
ResolvesEveryTime(settled) == TRUE

\* resolve(value) settles the promise of the poll loop, and so resumes
\* open(), only when the promise is still pending.
ResolvesPromise(settled) == ~settled

\* A poll is answered: resolve(await getRemoteJSON()); clearInterval(stop).
\* On the first answer open() resumes: it reads json[0], makes the socket
\* that will send Page.navigate, and assigns this.browser.
PollAnswer(tabs) ==
    /\ Alive
    /\ inFlight > 0
    /\ inFlight' = inFlight - 1
    /\ pollAnswers' = pollAnswers + 1
    /\ intervalOn' = FALSE
    /\ IF ResolvesPromise(jsonSettled)
       THEN /\ jsonSettled' = TRUE
            /\ json' = tabs
            /\ IF tabs = <<>>
               THEN /\ pc' = "failed"
                    /\ unhandled' = unhandled \cup {"rejection: json[0] is undefined"}
                    /\ UNCHANGED <<debuggerWs, browser>>
               ELSE /\ debuggerWs' = ManageDebuggerWs(debuggerWs, FirstTabSocket(tabs), "open")
                    /\ browser' = 1
                    /\ pc' = "done"
                    /\ UNCHANGED unhandled
       ELSE UNCHANGED <<jsonSettled, json, pc, unhandled, debuggerWs, browser>>
    /\ UNCHANGED <<devMode, platform, serverOpen, child, closeCalled, pollsStarted, cdpSent,
                   probeResult>>
    /\ UNCHANGED projVars
    /\ UNCHANGED otherVars

\* A poll fails: caught and logged; the timer stays armed.
PollFail ==
    /\ Alive
    /\ inFlight > 0
    /\ inFlight' = inFlight - 1
    /\ UNCHANGED <<devMode, platform, pc, serverOpen, browser, child, closeCalled, intervalOn,
                   pollsStarted, jsonSettled, json, debuggerWs, cdpSent, unhandled,
                   probeResult, pollAnswers>>
    /\ UNCHANGED projVars
    /\ UNCHANGED otherVars

\* The command manageDebuggerWs sends.  launcherCalled is history: whether
\* the launcher had been called when the command was sent.
DebuggerCommand(w) ==
    [target |-> w.url,
     method |-> IF w.command = "open" THEN "Page.navigate" ELSE "Page.close",
     params |-> IF w.command = "open" THEN <<InspectorUrl>> ELSE <<>>,
     launcherCalled |-> LauncherCalled]

\* debuggerWs.on('open'): send the command, close the socket.
DebuggerWsOpen(i) ==
    /\ Alive
    /\ i \in 1..Len(debuggerWs)
    /\ debuggerWs[i].state = "connecting"
    /\ cdpSent' = Append(cdpSent, DebuggerCommand(debuggerWs[i]))
    /\ debuggerWs' = [debuggerWs EXCEPT ![i].state = "closed"]
    /\ UNCHANGED <<devMode, platform, pc, serverOpen, browser, child, closeCalled, intervalOn,
                   pollsStarted, inFlight, jsonSettled, json, unhandled,
                   probeResult, pollAnswers>>
    /\ UNCHANGED projVars
    /\ UNCHANGED otherVars

\* The tab socket fails to connect: it emits 'error', which has no
\* listener, so the event is thrown as an uncaught exception.
DebuggerWsError(i) ==
    /\ Alive
    /\ i \in 1..Len(debuggerWs)
    /\ debuggerWs[i].state = "connecting"
    /\ debuggerWs' = [debuggerWs EXCEPT ![i].state = "failed"]
    /\ unhandled' = unhandled \cup {"exception: tab socket error"}
    /\ UNCHANGED <<devMode, platform, pc, serverOpen, browser, child, closeCalled, intervalOn,
                   pollsStarted, inFlight, jsonSettled, json, cdpSent,
                   probeResult, pollAnswers>>
    /\ UNCHANGED projVars
    /\ UNCHANGED otherVars

\* close(): this.server.close(); this.browser && this.browser.kill()
Close ==
    /\ Alive
    /\ serverOpen' = FALSE
    /\ closeCalled' = TRUE
    /\ child' = IF browser # 0 THEN "killed" ELSE child
    /\ UNCHANGED <<devMode, platform, pc, browser, intervalOn, pollsStarted, inFlight,
                   jsonSettled, json, debuggerWs, cdpSent, unhandled,
                   probeResult, pollAnswers>>
    /\ UNCHANGED projVars
    /\ UNCHANGED otherVars

InitOpen ==
    /\ devMode \in BOOLEAN
    /\ platform \in Platforms
    /\ pc = "idle"
    /\ serverOpen = TRUE
    /\ browser = 0
    /\ child = "none"
    /\ closeCalled = FALSE
    /\ intervalOn = FALSE
    /\ pollsStarted = 0
    /\ inFlight = 0
    /\ jsonSettled = FALSE
    /\ json = <<>>
    /\ debuggerWs = <<>>
    /\ cdpSent = <<>>
    /\ unhandled = {}
    /\ probeResult = [outcome |-> "none", tabs |-> <<>>]
    /\ pollAnswers = 0

\* ------------------------------------------- frame fields of one record

\* A JavaScript string is the sequence of its characters.
W_text == <<"t","e","x","t">>
W_image == <<"i","m","a","g","e">>
W_application == <<"a","p","p","l","i","c","a","t","i","o","n">>
W_plain == <<"p","l","a","i","n">>
W_html == <<"h","t","m","l">>
W_css == <<"c","s","s">>
W_javascript == <<"j","a","v","a","s","c","r","i","p","t">>
W_png == <<"p","n","g">>
W_xhtml == <<"x","h","t","m","l","+","x","m","l">>
W_json == <<"j","s","o","n">>
W_charset == <<";"," ","c","h","a","r","s","e","t","=","u","t","f","-","8">>
W_name == <<";"," ","n","a","m","e","=">>
Slash == <<"/">>

\* What getHeader('content-type') returns: undefined or a string.
Absent == [present |-> FALSE, value |-> <<>>]
Given(str) == [present |-> TRUE, value |-> str]

MimeTypes == {W_text, W_image, W_application}
MimeSubtypes == {W_plain, W_html, W_css, W_javascript, W_png, W_xhtml, W_json}
MimeParams == {<<>>, W_charset, W_name \o W_image, W_name \o W_css}

\* Content-type headers a response may carry, the empty string included.
ResponseContentTypes ==
    {Absent, Given(<<>>)} \cup
    {Given(t \o Slash \o st \o p) :
        t \in MimeTypes, st \in MimeSubtypes, p \in MimeParams}

\* Content-type headers a request may carry.
RequestContentTypes ==
    {Absent,
     Given(W_text \o Slash \o W_plain),
     Given(W_application \o Slash \o W_json),
     Given(W_application \o Slash \o W_json \o W_charset)}

\* /word/.test(str) and str.includes(word): word occurs somewhere in str.
Includes(str, word) ==
    \E i \in 0..(Len(str) - Len(word)) :
        SubSeq(str, i + 1, i + Len(word)) = word

\* headers.getHeader('content-type') || 'text/plain; charset=utf-8':
\* undefined and the empty string are both falsy.
ContentTypeOrDefault(h) ==
    IF h.present /\ h.value # <<>> THEN h.value
    ELSE W_text \o Slash \o W_plain \o W_charset

\* The type of the Network.responseReceived frame: four unanchored
\* regular expressions tried in turn on the whole content-type string.
ResourceType(h) ==
    LET contentType == ContentTypeOrDefault(h)
    IN  IF Includes(contentType, W_image) THEN "Image"
        ELSE IF Includes(contentType, W_javascript) THEN "Script"
        ELSE IF Includes(contentType, W_css) THEN "Stylesheet"
        ELSE IF Includes(contentType, W_html) THEN "Document"
        ELSE "Other"

\* Values of request.requestData (typed any): undefined, a string, or a
\* plain object whose entries are a key and a one-digit number.
Undefined == [kind |-> "undefined", chars |-> <<>>, entries |-> <<>>]
Str(c) == [kind |-> "string", chars |-> c, entries |-> <<>>]
Obj(e) == [kind |-> "object", chars |-> <<>>, entries |-> e]

RequestBodies ==
    {Undefined,
     Str(<<>>),
     Str(<<"a","=","1">>),
     Str(<<"{","\"","k","\"",":","1","}">>),
     Obj(<<>>),
     Obj(<<[key |-> <<"k">>, value |-> 1]>>)}

\* JavaScript truthiness of a requestData value.
Truthy(v) ==
    CASE v.kind = "undefined" -> FALSE
      [] v.kind = "string" -> v.chars # <<>>
      [] v.kind = "object" -> TRUE

Digit(n) == <<"0","1","2","3","4","5","6","7","8","9">>[n + 1]

RECURSIVE Escape(_)
\* JSON string escaping of quotes and backslashes.
Escape(c) ==
    IF c = <<>> THEN <<>>
    ELSE (IF Head(c) \in {"\"", "\\"} THEN <<"\\", Head(c)>> ELSE <<Head(c)>>)
         \o Escape(Tail(c))

Quoted(c) == <<"\"">> \o Escape(c) \o <<"\"">>

RECURSIVE Members(_)
\* The members of an object, comma separated.
Members(e) ==
    IF e = <<>> THEN <<>>
    ELSE Quoted(Head(e).key) \o <<":", Digit(Head(e).value)>>
         \o (IF Tail(e) = <<>> THEN <<>> ELSE <<",">>)
         \o Members(Tail(e))

\* JSON.stringify(v) for a string or a plain object.
JSONStringify(v) ==
    IF v.kind = "string" THEN Quoted(v.chars)
    ELSE <<"{">> \o Members(v.entries) \o <<"}">>

\* The spread into params.request of Network.requestWillBeSent:
\* request.requestData ? { postData: contentType?.includes(
\* 'application/json') ? JSON.stringify(requestData) : requestData } : {}
PostData(v, contentType) ==
    IF Truthy(v)
    THEN [present |-> TRUE,
          value |-> IF contentType.present
                       /\ Includes(contentType.value,
                                   W_application \o Slash \o W_json)
                    THEN Str(JSONStringify(v))
                    ELSE v]
    ELSE [present |-> FALSE, value |-> Undefined]

\* requestWillBeSent() builds the request block of its frame.
ProjectRequestFields ==
    /\ ~postData.built
    /\ postData' = [built |-> TRUE,
                    field |-> PostData(requestData, requestContentType)]
    /\ UNCHANGED <<requestData, requestContentType, responseContentType,
                   frameType>>
    /\ UNCHANGED <<projVars, openVars, idVars, hookVars, inboundVars>>

\* responseReceived() classifies the response.
ProjectResponseFields ==
    /\ frameType = "none"
    /\ frameType' = ResourceType(responseContentType)
    /\ UNCHANGED <<requestData, requestContentType, responseContentType,
                   postData>>
    /\ UNCHANGED <<projVars, openVars, idVars, hookVars, inboundVars>>

\* The record whose fields are projected: any body, any headers.
InitFields ==
    /\ requestData \in RequestBodies
    /\ requestContentType \in RequestContentTypes
    /\ responseContentType \in ResponseContentTypes
    /\ postData = [built |-> FALSE,
                   field |-> [present |-> FALSE, value |-> Undefined]]
    /\ frameType = "none"

\* A GET without a body whose response carries no content-type.
PlainRecord ==
    /\ requestData = Undefined
    /\ requestContentType = Absent
    /\ responseContentType = Absent

\* ------------------------------------------------- RequestDetail ids

\* Values Math.random() may return: the fractions n/36 of [0, 1) with
\* n <= MaxRandom, named by their numerator.
RandomValues == 0..MaxRandom

\* The base-36 digit of a number below 36.
Digit36(n) ==
    <<"0","1","2","3","4","5","6","7","8","9","a","b","c","d","e","f","g","h",
      "i","j","k","l","m","n","o","p","q","r","s","t","u","v","w","x","y","z">>[n + 1]

\* (n/36).toString(36): "0" for zero, else "0." and the fraction digit.
ToString36(n) ==
    IF n = 0 THEN <<"0">> ELSE <<"0", ".", Digit36(n)>>

\* str.slice(from) for 0 <= from.
Slice(str, from) == SubSeq(str, from + 1, Len(str))

\* new RequestDetail(): this.id = Math.random().toString(36).slice(2).
\* Nothing assigns the id afterwards.
NewRequestDetail ==
    /\ Len(ids) < MaxCreated
    /\ \E n \in RandomValues :
           ids' = Append(ids, Slice(ToString36(n), 2))
    /\ UNCHANGED <<projVars, openVars, fieldVars, hookVars, inboundVars>>

\* ------------------------------------------------------------ register

DefaultPort == 5270
DefaultServerPort == 5271

Agents == {"http", "https"}

\* A port number a caller may pass; 0 stands for a property left out.
CallerPort == DefaultPort + 1000
RegisterOptions ==
    {[given |-> g, port |-> p, serverPort |-> q] :
        g \in BOOLEAN, p \in {0, CallerPort}, q \in {0, CallerPort + 1}}

\* const { port = 5270, serverPort = 5271 } = props || {}
OptionsOrDefault(props) ==
    [port |-> IF props.given /\ props.port # 0
              THEN props.port ELSE DefaultPort,
     serverPort |-> IF props.given /\ props.serverPort # 0
                    THEN props.serverPort ELSE DefaultServerPort]

\* requestProxyFactory(actualRequestHandlerFn, isHttps, mainProcess): a
\* new function that reports to mainProcess and calls the function it
\* was given.  A function is the sequence of the wrappers around the
\* original request, innermost first.
RequestProxyFactory(actualRequestHandlerFn, isHttps, mainProcess) ==
    Append(actualRequestHandlerFn,
           [isHttps |-> isHttps, mainProcess |-> mainProcess])

\* proxyFetch(mainProcess): the global fetch is replaced by a wrapper
\* around the fetch in place.
ProxyFetch(fetch, mainProcess) ==
    Append(fetch, [mainProcess |-> mainProcess])

\* register(props).  The MainProcess objects are numbered in the order
\* of their construction.
Register(props) ==
    /\ Len(mainProcesses) < MaxRegisters
    /\ LET mainProcess == Len(mainProcesses) + 1 IN
         /\ mainProcesses' = Append(mainProcesses, OptionsOrDefault(props))
         /\ globalFetch' = ProxyFetch(globalFetch, mainProcess)
         /\ agentRequest' =
                [agent \in Agents |->
                    RequestProxyFactory(agentRequest[agent], agent = "https",
                                        mainProcess)]
    /\ UNCHANGED <<projVars, openVars, fieldVars, idVars, inboundVars>>

\* ------------------------------------------- inbound side of a socket

\* The values a well-formed inbound text stands for.
JsonValues ==
    {Str(<<>>), Obj(<<>>), Obj(<<[key |-> <<"i","d">>, value |-> 1]>>)}

\* message.toString() of the frames a front-end may send: the JSON text
\* of a value, an object cut short, or nothing at all.
InboundTexts ==
    {JSONStringify(v) : v \in JsonValues} \cup {<<"{">>, <<>>}

\* JSON.parse(text): the value whose JSON text it is, or a SyntaxError.
JSONParse(text) ==
    IF \E v \in JsonValues : JSONStringify(v) = text
    THEN [ok |-> TRUE,
          value |-> CHOOSE v \in JsonValues : JSONStringify(v) = text]
    ELSE [ok |-> FALSE, value |-> Undefined]

\* this.listeners.forEach((listener) => listener(error, msg)): one call
\* per listener, in the order of the array.
ForEachListener(error, msg) ==
    [i \in 1..Len(listeners) |->
        [listener |-> listeners[i], error |-> error, message |-> msg]]

\* on(listener): this.listeners.push(listener).  Listeners are numbered
\* in the order of their registration.
On(listener) ==
    /\ Alive
    /\ Len(listeners) < MaxListeners
    /\ listener = Len(listeners) + 1
    /\ listeners' = Append(listeners, listener)
    /\ UNCHANGED <<delivered, received>>
    /\ UNCHANGED <<projVars, openVars, fieldVars, idVars, hookVars>>

\* socket.on('message'): parse, then call every listener.  JSON.parse is
\* not guarded, so a SyntaxError leaves the handler and the emitter as an
\* uncaught exception.
SocketMessage(s, text) ==
    /\ Alive
    /\ jobs = <<>>
    /\ sockState[s] = "open"
    /\ Len(received) < MaxInbound
    /\ received' = Append(received, [kind |-> "message", text |-> text,
                                     listeners |-> listeners])
    /\ LET msg == JSONParse(text) IN
         IF msg.ok
         THEN /\ delivered' = delivered \o ForEachListener("null", msg.value)
              /\ UNCHANGED unhandled
         ELSE /\ unhandled' = unhandled \cup {"SyntaxError"}
              /\ UNCHANGED delivered
    /\ UNCHANGED listeners
    /\ UNCHANGED <<devMode, platform, pc, serverOpen, browser, child, closeCalled,
                   intervalOn, pollsStarted, inFlight, jsonSettled, json,
                   debuggerWs, cdpSent, probeResult, pollAnswers>>
    /\ UNCHANGED <<projVars, fieldVars, idVars, hookVars>>

\* socket.on('error'): call every listener with the error.
SocketError(s) ==
    /\ Alive
    /\ jobs = <<>>
    /\ sockState[s] = "open"
    /\ Len(received) < MaxInbound
    /\ received' = Append(received, [kind |-> "error", text |-> <<>>,
                                     listeners |-> listeners])
    /\ delivered' = delivered \o ForEachListener("Error", Undefined)
    /\ UNCHANGED listeners
    /\ UNCHANGED <<projVars, openVars, fieldVars, idVars, hookVars>>

\* Nothing constructed, nothing registered.
InitIdle ==
    /\ ids = <<>>
    /\ agentRequest = [agent \in Agents |-> <<>>]
    /\ globalFetch = <<>>
    /\ mainProcesses = <<>>
    /\ listeners = <<>>
    /\ delivered = <<>>
    /\ received = <<>>

InitOther == InitFields /\ InitIdle

Init == InitProj /\ InitOpen /\ InitOther

\* Spec: the projection with any number of front-end connections.  The
\* projection never reads process.platform, and no step of send() depends
\* on the content of a frame, so the platform is fixed, Date.now() is held
\* at the reading taken at construction and every response has status 200.
\* SpecClock lets every call of Date.now() return any reading and every
\* response carry any status.
Next ==
    \/ \E r \in Records : RequestWillBeSent(r, {startTime})
    \/ \E r \in Records : ResponseReceived(r, {200}, {startTime})
    \/ \E s \in SocketIds : Connect(s)
    \/ \E s \in SocketIds : SocketClose(s)
    \/ RunJob

InitFixed ==
    Init /\ platform = "linux" /\ startTime = 0 /\ devMode = FALSE /\ PlainRecord

Spec == InitFixed /\ [][Next]_vars

\* SpecClock: the projection towards one front-end, under every sequence
\* of wall-clock readings and every response status.
NextClock ==
    \/ \E r \in 1..MaxClockRecords : RequestWillBeSent(r, ClockReadings)
    \/ \E r \in 1..MaxClockRecords : ResponseReceived(r, StatusCodes, ClockReadings)
    \/ Connect(1)
    \/ RunJob

InitClock ==
    Init /\ platform = "linux" /\ startTime = MaxClock /\ devMode = FALSE
         /\ PlainRecord

SpecClock == InitClock /\ [][NextClock]_vars

\* SpecInterleave: the projection calls of several records in any order
\* towards one front-end, under every sequence of wall-clock readings.
NextInterleave ==
    \/ \E r \in Records : RequestWillBeSent(r, ClockReadings)
    \/ \E r \in Records : ResponseReceived(r, {200}, ClockReadings)
    \/ Connect(1)
    \/ RunJob

SpecInterleave == InitClock /\ [][NextInterleave]_vars

\* SpecOpen: the browser-launch sequence and close(), with every outcome
\* of the probe, the launcher, the polls and the tab sockets.
NextOpen ==
    \/ Listening
    \/ \E tabs \in JsonAnswers : ProbeAnswer(tabs)
    \/ ProbeFail
    \/ LaunchDone
    \/ LaunchFail
    \/ TimerFire(MaxOpenPolls)
    \/ \E tabs \in JsonAnswers : PollAnswer(tabs)
    \/ PollFail
    \/ \E i \in 1..(MaxTabs + 1) : DebuggerWsOpen(i)
    \/ \E i \in 1..(MaxTabs + 1) : DebuggerWsError(i)
    \/ Close

InitLaunch == Init /\ startTime = 0 /\ PlainRecord

SpecOpen == InitLaunch /\ [][NextOpen]_vars

\* SpecPoll: the launch sequence when the /json endpoint never answers.
NextPoll ==
    \/ Listening
    \/ ProbeFail
    \/ LaunchDone
    \/ TimerFire(MaxPolls)
    \/ PollFail

SpecPoll == InitLaunch /\ [][NextPoll]_vars

\* SpecFields: the fields requestWillBeSent() and responseReceived()
\* compute from one record, for every body and every content-type.
NextFields ==
    \/ ProjectRequestFields
    \/ ProjectResponseFields

InitRecord ==
    Init /\ platform = "linux" /\ startTime = 0 /\ devMode = FALSE

SpecFields == InitRecord /\ [][NextFields]_vars

\* SpecIds: the records constructed during a run, under every sequence
\* of values Math.random() returns.
NextIds ==
    \/ NewRequestDetail

SpecIds == InitFixed /\ [][NextIds]_vars

\* SpecRegister: register() called any number of times, with any options.
NextRegister ==
    \/ \E props \in RegisterOptions : Register(props)

SpecRegister == InitFixed /\ [][NextRegister]_vars

\* SpecInbound: front-ends connect, listeners register, and the sockets
\* emit 'message' with any text and 'error'.
NextInbound ==
    \/ \E s \in SocketIds : Connect(s)
    \/ RunJob
    \/ \E listener \in 1..MaxListeners : On(listener)
    \/ \E s \in SocketIds, text \in InboundTexts : SocketMessage(s, text)
    \/ \E s \in SocketIds : SocketError(s)

SpecInbound == InitFixed /\ [][NextInbound]_vars

\* ------------------------------------------------------------- claims

LifecycleMethods ==
    <<"Network.requestWillBeSent", "Network.responseReceived",
      "Network.dataReceived", "Network.loadingFinished">>

\* The socket.send() calls whose frame was built from record r or carries
\* its id, in call order.
HandedFor(r) ==
    SelectSeq(handed, LAMBDA e : e.rec = r \/ e.frame.requestId = RequestId(r))

\* C1: once requestWillBeSent(R) and then responseReceived(R) have been
\* called and a front-end has connected, the sockets have been handed
\* exactly four frames for R: requestWillBeSent, responseReceived,
\* dataReceived, loadingFinished, in that order, each with requestId R.id,
\* whatever the response status.
C1_FourFramesInOrder ==
    \A r \in Records :
        (Called("responseReceived", r) /\ socketSettled /\ jobs = <<>>) =>
            LET fs == HandedFor(r) IN
                /\ Len(fs) = 4
                /\ \A i \in 1..4 :
                     /\ fs[i].frame.method = LifecycleMethods[i]
                     /\ fs[i].frame.requestId = RequestId(r)
                     /\ fs[i].rec = r

\* A record with status 500, both calls made with the front-end connected,
\* all four frames written to the front-end's socket.
C1_Witness ==
    \E r \in Records :
        /\ Called("responseReceived", r)
        /\ jobs = <<>>
        /\ Len(HandedFor(r)) = 4
        /\ \A i \in 1..4 :
             /\ HandedFor(r)[i].connAtSend = 1
             /\ HandedFor(r)[i].sock = 1
             /\ HandedFor(r)[i].delivered
        /\ HandedFor(r)[2].frame.response = <<500, "">>

\* C2: within the frames emitted for one record, the timestamp never
\* decreases from one frame to the next, for every sequence of wall-clock
\* readings returned to updateTimestamp.
C2_TimestampsNonDecreasing ==
    \A i, j \in 1..Len(handed) :
        (i < j /\ handed[i].rec = handed[j].rec) =>
            handed[i].frame.timestamp <= handed[j].frame.timestamp

\* Every projection call for a is made before any projection call for b.
AllCallsBefore(a, b) ==
    /\ \E i \in 1..Len(calls) : calls[i].rec = a
    /\ \E j \in 1..Len(calls) : calls[j].rec = b
    /\ \A i, j \in 1..Len(calls) :
         (calls[i].rec = a /\ calls[j].rec = b) => i < j

\* C3: when every projection call for record A is made before any
\* projection call for record B, every frame of A is handed to the socket
\* before any frame of B, whether the calls are made before or after the
\* front-end connects.
C3_RecordOrder ==
    \A a, b \in Records :
        (a # b /\ AllCallsBefore(a, b)) =>
            \A i, j \in 1..Len(handed) :
                (handed[i].rec = a /\ handed[j].rec = b) => i < j

\* A projected before any front-end connected, B after, all eight frames
\* handed.
C3_Witness ==
    \E a, b \in Records :
        /\ a # b
        /\ AllCallsBefore(a, b)
        /\ Len(HandedFor(a)) = 4
        /\ Len(HandedFor(b)) = 4
        /\ \A i \in 1..4 : HandedFor(a)[i].connAtSend = 0
        /\ \A i \in 1..4 : HandedFor(b)[i].connAtSend # 0

\* C4: the server holds one front-end socket at a time: the first
\* connection is stored, and every frame passed to send() after a later
\* connection is written to the most recently connected socket and to no
\* earlier one.
C4_LatestSocket ==
    /\ \A i \in 1..Len(handed) :
         /\ handed[i].connAtSend # 0 => handed[i].sock = handed[i].connAtSend
         /\ handed[i].connAtSend = 0 => handed[i].sock = 1
    /\ (jobs = <<>> /\ lastConn # 0) => socketCell = lastConn

\* A frame sent after the second connection, written to the second socket
\* while the first is still open.
C4_Witness ==
    \E i \in 1..Len(handed) :
        /\ handed[i].connAtSend = 2
        /\ handed[i].sock = 2
        /\ sockState[1] = "open"
        /\ \E j \in 1..Len(handed) : handed[j].sock = 1

\* C5: after the connected front-end socket closes, requestWillBeSent and
\* responseReceived keep accepting records (every send() completes), and
\* every frame sent between that close and the next connection is dropped:
\* it goes to the closed socket and never to the socket that attaches later.
C5_DroppedWhileClosed ==
    /\ \A i \in 1..Len(handed) :
         handed[i].closedAtSend =>
             /\ ~handed[i].delivered
             /\ handed[i].sock = handed[i].connAtSend
    /\ Cardinality({handed[i].seq : i \in 1..Len(handed)}) = Len(handed)
    /\ (lastConn # 0 /\ jobs = <<>>) => Len(handed) = sendCount

\* Frames sent after socket 1 closed, then socket 2 attached and received
\* a frame of its own.
C5_Witness ==
    /\ lastConn = 2
    /\ sockState[2] = "open"
    /\ \E i \in 1..Len(handed) : handed[i].closedAtSend /\ handed[i].sock = 1
    /\ \E j \in 1..Len(handed) : handed[j].sock = 2 /\ handed[j].delivered

\* C6: after close() has been called, the WebSocket server is shut and
\* every browser child launched by open() is terminated, also when close()
\* comes while open() is still in progress.
C6_CloseTerminatesBrowser ==
    closeCalled => (~serverOpen /\ child # "running")

\* C7: a failure anywhere in the browser-launch sequence (the probe, the
\* launcher, the polled answer, the tab socket) is contained: nothing
\* escapes as an unhandled error and the server keeps serving front-ends.
C7_LaunchFailuresContained ==
    /\ unhandled = {}
    /\ pc # "failed"

\* C8: the probe is bounded: when /json never responds, no poll is started
\* later than 30 s after the first (60 polls at 500 ms).
C8_ProbeBounded ==
    pollsStarted * PollIntervalMs <= 30 * 1000

Navigates == SelectSeq(cdpSent, LAMBDA c : c.method = "Page.navigate")
OpenSockets == SelectSeq(debuggerWs, LAMBDA w : w.command = "open")

C9_NavigateState ==
    /\ Len(Navigates) <= 1
    /\ \A i \in 1..Len(Navigates) :
         /\ jsonSettled
         /\ json # <<>>
         /\ Navigates[i].target = json[1].webSocketDebuggerUrl
         /\ Navigates[i].params = <<InspectorUrl>>
    /\ (jsonSettled /\ json # <<>>) =>
         /\ Len(OpenSockets) = 1
         /\ OpenSockets[1].url = json[1].webSocketDebuggerUrl
         /\ OpenSockets[1].state = "closed" => Len(Navigates) = 1
    /\ pollsStarted > 0 => platform # "darwin"

\* C9: off darwin, once a poll is answered with at least one tab,
\* Page.navigate with the inspector URL is sent exactly once (when the tab
\* socket opens), to the first listed tab, and no poll is started after the
\* first answer, even with several polls in flight.
C9_NavigateOnce ==
    /\ []C9_NavigateState
    /\ [][jsonSettled => pollsStarted' = pollsStarted]_vars

\* Two polls were answered, the second after the first had resumed open(),
\* and Page.navigate went out once.
C9_Witness ==
    /\ pollAnswers >= 2
    /\ jsonSettled
    /\ Len(json) = 2
    /\ Len(Navigates) = 1

ProbeMatched ==
    /\ probeResult.outcome = "answered"
    /\ FindIndex(probeResult.tabs, InspectorUrl) # -1

PageCloses == SelectSeq(cdpSent, LAMBDA c : c.method = "Page.close")

\* C10: Page.close is sent if and only if the first probe succeeds and
\* lists a tab whose url is the inspector URL; it goes to that tab's
\* webSocketDebuggerUrl and is sent before the browser launch begins; the
\* browser is launched whatever the probe's outcome.
C10_PageCloseBeforeLaunch ==
    /\ \A i \in 1..Len(PageCloses) :
         /\ ProbeMatched
         /\ PageCloses[i].target =
                StaleTabSocket(probeResult.tabs,
                               FindIndex(probeResult.tabs, InspectorUrl))
         /\ ~PageCloses[i].launcherCalled
    /\ (ProbeMatched /\ LauncherCalled) => Len(PageCloses) = 1
    /\ probeResult.outcome # "none" => LauncherCalled

\* C11: when the devMode flag is true (NETWORK_DEBUG_MODE=true), the
\* browser is not launched automatically: open(), run from the server's
\* 'listening' event, never calls the browser launcher.
C11_DevModeNoLaunch ==
    devMode => ~LauncherCalled

\* The part of str before the first occurrence of the character ch.
Before(str, ch) ==
    IF \E i \in 1..Len(str) : str[i] = ch
    THEN SubSeq(str, 1, (CHOOSE i \in 1..Len(str) :
                            str[i] = ch /\ \A j \in 1..(i - 1) : str[j] # ch) - 1)
    ELSE str

\* The part of str after the first occurrence of the character ch.
After(str, ch) == SubSeq(str, Len(Before(str, ch)) + 2, Len(str))

\* The mime type of a content-type: the string without its "; ..." suffix.
MimeOf(str) == Before(str, ";")

\* The table of the specification: image/* is Image, */javascript is
\* Script, */css is Stylesheet, text/html is Document, anything else
\* (no content-type included) is Other.
TableType(h) ==
    LET type == Before(MimeOf(h.value), "/")
        subtype == After(MimeOf(h.value), "/")
    IN  IF ~h.present THEN "Other"
        ELSE IF type = W_image THEN "Image"
        ELSE IF subtype = W_javascript THEN "Script"
        ELSE IF subtype = W_css THEN "Stylesheet"
        ELSE IF type = W_text /\ subtype = W_html THEN "Document"
        ELSE "Other"

\* C12: for every response content-type the type of the
\* Network.responseReceived frame is the one the table gives for its mime
\* type; a content-type that only contains one of the words elsewhere (in
\* a parameter, or as application/xhtml+xml) and an absent content-type
\* are Other.
C12_TypeTable ==
    frameType # "none" => frameType = TableType(responseContentType)

\* The request content-type names the mime type application/json.
JsonRequest ==
    /\ requestContentType.present
    /\ MimeOf(requestContentType.value) = W_application \o Slash \o W_json

\* C13: in the Network.requestWillBeSent frame postData is present if and
\* only if the record has a request body, the empty string included; with
\* a JSON content-type it is the JSON text of the body, otherwise the body
\* itself.
C13_PostData ==
    postData.built =>
        /\ postData.field.present <=> requestData # Undefined
        /\ postData.field.present =>
               postData.field.value =
                   IF JsonRequest THEN Str(JSONStringify(requestData))
                   ELSE requestData

\* C14: any two RequestDetail records created during a run have distinct,
\* non-empty ids, and the id of a record never changes after its
\* construction.
C14_DistinctStableIds ==
    /\ [](\A i \in 1..Len(ids) :
             /\ ids[i] # <<>>
             /\ \A j \in 1..Len(ids) : i # j => ids[i] # ids[j])
    /\ [][\A i \in 1..Len(ids) : ids'[i] = ids[i]]_vars

\* The frame of handed[i] was passed to send() before any front-end had
\* connected.
SentBeforeConnect(i) == handed[i].connAtSend = 0

\* C15: frames passed to send() before any front-end has connected are not
\* lost: they wait on the pending socket promise, and when the first
\* front-end connects all of them are written to its socket, in the order
\* of their send() calls and before any frame sent after the connection.
C15_PendingFlushedInOrder ==
    /\ lastConn = 0 => (handed = <<>> /\ Len(reactions) = sendCount)
    /\ (lastConn # 0 /\ jobs = <<>>) => Len(handed) = sendCount
    /\ \A i \in 1..Len(handed) :
         SentBeforeConnect(i) =>
             /\ handed[i].sock = 1
             /\ handed[i].delivered
             /\ \A j \in 1..Len(handed) :
                  /\ (SentBeforeConnect(j) /\ handed[i].seq < handed[j].seq) => i < j
                  /\ ~SentBeforeConnect(j) => i < j

\* Two records were projected before the first front-end connected and a
\* frame was sent after it; all of them have been handed to a socket.
C15_Witness ==
    /\ jobs = <<>>
    /\ \E i, j, k \in 1..Len(handed) :
         /\ SentBeforeConnect(i) /\ SentBeforeConnect(j)
         /\ handed[i].rec # handed[j].rec
         /\ ~SentBeforeConnect(k)

\* C16: every emitted frame carries the value computed by the
\* updateTimestamp call made for it, under any interleaving of the
\* projection calls of different records (the value this.timestamp holds
\* after the calls made so far is the one the last frame carries), and
\* timestamps never decrease in the order frames are handed to the socket.
C16_OwnTimestampInOrder ==
    /\ (jobs = <<>> /\ handed # <<>> /\ Len(handed) = sendCount) =>
           handed[Len(handed)].frame.timestamp = timestamp
    /\ \A i, j \in 1..Len(handed) :
           i < j => handed[i].frame.timestamp <= handed[j].frame.timestamp

\* C17: after any number of register() calls, http.request and
\* https.request are each wrapped by exactly one interception layer and
\* exactly one MainProcess exists.
C17_RegisterOnce ==
    mainProcesses # <<>> =>
        /\ Len(mainProcesses) = 1
        /\ \A agent \in Agents : Len(agentRequest[agent]) = 1

\* The listener calls one inbound event is to produce: for a message, its
\* parsed value with a null error to every listener registered at that
\* time, in registration order; for an error, the error as first argument.
CallsFor(event) ==
    [i \in 1..Len(event.listeners) |->
        [listener |-> event.listeners[i],
         error |-> IF event.kind = "error" THEN "Error" ELSE "null",
         message |-> IF event.kind = "error" THEN Undefined
                     ELSE JSONParse(event.text).value]]

RECURSIVE CallsForAll(_)
CallsForAll(events) ==
    IF events = <<>> THEN <<>>
    ELSE (IF Head(events).kind = "message" /\ ~JSONParse(Head(events).text).ok
          THEN <<>> ELSE CallsFor(Head(events)))
         \o CallsForAll(Tail(events))

\* C18: every inbound message is parsed and delivered with a null error
\* to every listener registered through on(), in registration order; a
\* socket 'error' is delivered to every listener with the error as first
\* argument; and a message that cannot be parsed does not raise out of
\* the message handler.
C18_InboundDelivery ==
    /\ delivered = CallsForAll(received)
    /\ "SyntaxError" \notin unhandled

====
